---- MODULE Spec2Model ----
(***************************************************************************)
(* State-machine model of the storage layer of sync-carpediem-shopify:     *)
(* the run/event ledger (createRun, addRunLog, finishRun, listRuns,         *)
(* getRunWithLogs), the dedup ledger (markProcessed, isProcessed), the     *)
(* link registry (upsertEbayLink, getEbayLinkBySku) and the webhook         *)
(* handlers that use them.  Every store exists in an in-memory fallback    *)
(* (the `memory` object) and in a durable form (the Postgres tables); the  *)
(* variable `pool` says which one the process selected at start-up.        *)
(***************************************************************************)
EXTENDS Integers, Sequences, FiniteSets, TLC

\* ------------------------------------------------------------------ bounds
MaxRuns == 2
MaxLogs == 3
MaxSideLogs == 1
MaxClock == 2
MaxStmts == 5
MaxLimit == 3
MaxMarks == 2
\* OAuth states issued, token stores per state, clock readings of the OAuth flow
MaxStates == 2
MaxStores == 2
MaxAuthClock == 3
MaxCalls == 2

\* ------------------------------------------------------- JavaScript values
Undef == "undefined"
Null == "null"
EmptyObj == "{}"
\* a timestamp column holding NULL / a field holding null
NullTime == 0

Shops == {"a.myshopify.com", "b.myshopify.com"}
TriggerArgs == {Undef}
StatusArgs == {Undef, "success", "error"}
SummaryArgs == {Undef, Null, "S1"}
LevelArgs == {Undef, "error"}
MessageArgs == {Undef, "", "A", "B"}
MetaArgs == {Undef}
\* run ids a caller can pass: 0 is an id no createRun ever returned
RunIdArgs == 0..MaxRuns
LimitArgs == 0..MaxLimit
\* the two store files that implement the run ledger with run logs
Variants == {"db", "p000"}

\* a defaulted parameter: the default applies to undefined only
Default(v, d) == IF v = Undef THEN d ELSE v
\* JavaScript's  v || d
Falsy(v) == v \in {Undef, Null, ""}
OrElse(v, d) == IF Falsy(v) THEN d ELSE v
\* node-pg sends undefined as NULL
ToParam(v) == IF v = Undef THEN Null ELSE v
\* SQL COALESCE(a, b)
Coalesce(a, b) == IF a = Null THEN b ELSE a

VARIABLES
    proc,               \* the server process: its environment and how far startup has come
    pool,               \* the pg Pool exists: DATABASE_URL was set when initDb ran
    variant,            \* which store file implements the run ledger
    clock,              \* the last reading of new Date() / NOW()
    nextId,             \* the next fresh run id (crypto.randomUUID)
    memory,             \* the in-memory fallback object of the store
    shop_tokens, processed_events, runs, run_logs,   \* the tables initDb creates
    dash, sync_runs, app_logs,    \* the dashboard store: its memory object and its tables
    shops, ebay_links,  \* the tables of the link registry
    ebayCalls,          \* the updateOfferPriceQty calls made so far, per webhook event
    last,               \* the last call made: operation, arguments, whether it threw
    hist, marks,        \* history: entries appended per run, markProcessed calls per id
    p003,               \* the order-sync store: global.__PROCESSED__, processed_orders, the pairs marked
    oauth               \* the oauthStates map, the /auth/callback requests in flight, the states issued

vars == <<oauth, p003, proc, pool, variant, clock, nextId, memory, shop_tokens, processed_events, runs, run_logs,
          dash, sync_runs, app_logs, shops, ebay_links, ebayCalls, last, hist, marks>>

\* the variables of each store, for the frame conditions
ledgerVars == <<nextId, runs, run_logs, hist>>
storeVars == <<shop_tokens, processed_events, marks, p003>>
dashVars == <<dash, sync_runs, app_logs>>
linkVars == <<shops, ebay_links, ebayCalls>>

NoOp ==
    [op |-> "init", id |-> 0, shop |-> Undef, key |-> Undef, status |-> Undef, summary |-> Undef,
     message |-> Undef, offerId |-> Undef, listingId |-> Undef, lastError |-> Undef,
     productId |-> Undef, variantId |-> Undef, hmac |-> Undef, err |-> FALSE]

EventIds == {"e1", "e2"}
\* access tokens a caller can store; the empty string is a string like any other
TokenArgs == {"", "t1", "t2"}
DurationArgs == {12}
Skus == {"SKU1", "SKU2"}
ProductArgs == {"P1", "P2"}
VariantArgs == {"V1", "V2"}
OfferArgs == {Undef, Null, "O1", "O2"}
ListingArgs == {Undef, "L1"}
LinkStatusArgs == {Undef, "published"}
ErrorArgs == {Undef, "E1"}
QtyArgs == {0, 5}

\* the /auth/callback requests served at once
Handlers == {1, 2}
\* a handler with no request
CbIdle == [pc |-> "idle", shop |-> Undef, state |-> 0, okHmac |-> FALSE, at |-> 0, token |-> Undef]
\* const oauthStates = new Map(), no request in flight, no state issued yet
NoOAuth == [states |-> {}, cb |-> [h \in Handlers |-> CbIdle], issued |-> {}, stores |-> <<>>]

\* the module-level state of the store files and the empty tables initDb creates
Init ==
    /\ pool \in BOOLEAN
    /\ proc = [app |-> "v1", env |-> "ok", url |-> pool, reachable |-> TRUE, phase |-> "listening"]
    /\ variant \in Variants
    /\ clock = 1
    /\ nextId = 1
    /\ memory = [tokens |-> <<>>, processed |-> {}, runs |-> <<>>, runLogs |-> <<>>]
    /\ shop_tokens = {}
    /\ processed_events = {}
    /\ runs = {}
    /\ run_logs = {}
    /\ dash = [runs |-> <<>>, logs |-> <<>>]
    /\ app_logs = {}
    /\ sync_runs = {}
    /\ shops = {}
    /\ ebay_links = {}
    /\ ebayCalls = [e \in EventIds |-> <<>>]
    /\ last = NoOp
    /\ hist = [i \in RunIdArgs |-> <<>>]
    /\ marks = [e \in EventIds |-> 0]
    /\ oauth = NoOAuth
    /\ p003 = [PROCESSED |-> {}, processed_orders |-> {}, marked |-> {}]

hasDb == pool

\* new Date() advances on its own; two calls may read the same millisecond
Tick ==
    /\ ~hasDb
    /\ clock' = clock + 1
    /\ UNCHANGED <<oauth, proc, pool, variant, memory, last, ledgerVars, storeVars, dashVars, linkVars>>

\* ------------------------------------------------------------ RUNS + LOGS
\* the summary createRun stores in memory.runs
CreateSummaryMem(v, summary) ==
    IF v = "db" THEN Default(summary, EmptyObj) ELSE Default(summary, Null)

\* the summary createRun inserts into runs.summary
CreateSummaryPg(v, summary) ==
    IF v = "db" THEN OrElse(Default(summary, EmptyObj), EmptyObj) ELSE Default(summary, Null)

\* mutant: the new run is stamped finished at creation
NewRunFinished(id, shopDomain, trigger, summary, now) ==
    [id |-> id, shop_domain |-> shopDomain, trigger |-> Default(trigger, "manual"),
     status |-> "running", summary |-> summary, started_at |-> now, finished_at |-> now]

NewRun(id, shopDomain, trigger, summary, now) ==
    [id |-> id, shop_domain |-> shopDomain, trigger |-> Default(trigger, "manual"),
     status |-> "running", summary |-> summary, started_at |-> now, finished_at |-> NullTime]

createRun(shopDomain, trigger, summary) ==
    /\ nextId' = nextId + 1
    /\ IF ~hasDb
       THEN /\ memory' = [memory EXCEPT
                   !.runs = <<NewRun(nextId, shopDomain, trigger, CreateSummaryMem(variant, summary), clock)>> \o @,
                   !.runLogs = [k \in DOMAIN @ \cup {nextId} |-> IF k = nextId THEN <<>> ELSE @[k]]]
            /\ UNCHANGED <<runs, clock>>
       ELSE /\ clock' = clock + 1
            /\ runs' = runs \cup {NewRun(nextId, shopDomain, trigger, CreateSummaryPg(variant, summary), clock + 1)}
            /\ UNCHANGED memory
    /\ last' = [NoOp EXCEPT !.op = "createRun", !.id = nextId, !.shop = shopDomain, !.summary = summary]
    /\ hist' = [hist EXCEPT ![nextId] = <<>>]
    /\ UNCHANGED <<oauth, proc, pool, variant, run_logs, storeVars, dashVars, linkVars>>

RECURSIVE SumLen(_, _)
SumLen(f, S) == IF S = {} THEN 0 ELSE LET k == CHOOSE x \in S : TRUE IN Len(f[k]) + SumLen(f, S \ {k})
\* the number of log entries written so far
TotalLogs == SumLen(hist, DOMAIN hist)

\* mutant: the call writes back an array holding only its own entry
PushLogAlone(arr, entry) == <<entry>>

\* mutant: arr.unshift(entry)
UnshiftLog(arr, entry) == <<entry>> \o arr

\* arr.push(entry)
PushLog(arr, entry) == Append(arr, entry)

\* mutant: if (message === undefined) return;
SkipsLogUndefinedOnly(message) == message = Undef

\* if (!message) return;
SkipsLog(message) == Falsy(message)

\* the row addRunLog inserts; p000 keeps no meta
LogEntry(v, level, message, meta, now) ==
    [level |-> Default(level, "info"), message |-> message,
     meta |-> IF v = "db" THEN Default(meta, EmptyObj) ELSE Undef, created_at |-> now]

\* run_logs.run_id REFERENCES runs(id)
RunExists(runId) == \E r \in runs : r.id = runId

\* memory.runLogs.get(runId) || []
MemLogsOf(runId) == IF runId \in DOMAIN memory.runLogs THEN memory.runLogs[runId] ELSE <<>>

addRunLog(runId, level, message, meta) ==
    /\ IF SkipsLog(message)
       THEN /\ UNCHANGED <<memory, run_logs, clock, hist>>
            /\ last' = [NoOp EXCEPT !.op = "addRunLog", !.id = runId, !.message = message]
       ELSE IF ~hasDb
       THEN /\ memory' = [memory EXCEPT !.runLogs =
                   [k \in DOMAIN @ \cup {runId} |->
                       IF k = runId THEN PushLog(MemLogsOf(runId), LogEntry(variant, level, message, meta, clock))
                       ELSE @[k]]]
            /\ hist' = [hist EXCEPT ![runId] = Append(@, [level |-> Default(level, "info"), message |-> message])]
            /\ last' = [NoOp EXCEPT !.op = "addRunLog", !.id = runId, !.message = message]
            /\ UNCHANGED <<run_logs, clock>>
       ELSE /\ clock' = clock + 1
            /\ IF RunExists(runId)
               THEN /\ run_logs' = run_logs \cup
                        {[id |-> Cardinality(run_logs) + 1, run_id |-> runId] @@
                         LogEntry(variant, level, message, IF variant = "db" THEN OrElse(meta, EmptyObj) ELSE Undef, clock + 1)}
                    /\ hist' = [hist EXCEPT ![runId] = Append(@, [level |-> Default(level, "info"), message |-> message])]
                    /\ last' = [NoOp EXCEPT !.op = "addRunLog", !.id = runId, !.message = message]
               ELSE /\ UNCHANGED <<run_logs, hist>>
                    /\ last' = [NoOp EXCEPT !.op = "addRunLog", !.id = runId, !.message = message, !.err = TRUE]
            /\ UNCHANGED memory
    /\ UNCHANGED <<oauth, proc, pool, variant, nextId, runs, storeVars, dashVars, linkVars>>

\* the summary finishRun writes over a stored summary `old`
FinishSummaryMem(v, summary, old) ==
    IF v = "db" THEN OrElse(Default(summary, EmptyObj), EmptyObj) ELSE Default(summary, Null)

FinishSummaryPg(v, summary, old) ==
    IF v = "db" THEN OrElse(Default(summary, EmptyObj), EmptyObj)
    ELSE Coalesce(ToParam(Default(summary, Null)), old)

\* run.status = status  /  SET status = $2
FinishStatus(status, old) == Default(status, "success")

\* mutant: finishRun leaves finished_at unset
FinishTimeUnset(now, old) == NullTime

\* run.finished_at = new Date()  /  finished_at = NOW()
FinishTime(now, old) == now

\* mutant: a matching id selects the oldest run instead of the matching one
FindRunOldest(runId) ==
    IF \E i \in DOMAIN memory.runs : memory.runs[i].id = runId THEN Len(memory.runs) ELSE 0

\* mutant: a matching id selects the newest run instead of the matching one
FindRunNewest(runId) ==
    IF \E i \in DOMAIN memory.runs : memory.runs[i].id = runId THEN 1 ELSE 0

\* mutant: the predicate ignores the id, find returns the first run
FindRunAny(runId) == IF memory.runs = <<>> THEN 0 ELSE 1

\* memory.runs.find((r) => r.id === runId): the index of the first match, 0 if none
FindRun(runId) ==
    IF \E i \in DOMAIN memory.runs : memory.runs[i].id = runId
    THEN CHOOSE i \in DOMAIN memory.runs :
            /\ memory.runs[i].id = runId
            /\ \A j \in DOMAIN memory.runs : memory.runs[j].id = runId => i <= j
    ELSE 0

finishRun(runId, status, summary) ==
    /\ IF ~hasDb
       THEN /\ memory' = [memory EXCEPT !.runs =
                   [i \in DOMAIN @ |->
                       IF i = FindRun(runId)
                       THEN [@[i] EXCEPT !.status = FinishStatus(status, @),
                                         !.summary = FinishSummaryMem(variant, summary, @),
                                         !.finished_at = FinishTime(clock, @)]
                       ELSE @[i]]]
            /\ UNCHANGED <<runs, clock>>
       ELSE /\ clock' = clock + 1
            /\ runs' = {IF r.id = runId
                        THEN [r EXCEPT !.status = FinishStatus(status, @),
                                       !.summary = FinishSummaryPg(variant, summary, @),
                                       !.finished_at = FinishTime(clock + 1, @)]
                        ELSE r : r \in runs}
            /\ UNCHANGED memory
    /\ last' = [NoOp EXCEPT !.op = "finishRun", !.id = runId, !.status = status, !.summary = summary]
    /\ UNCHANGED <<oauth, proc, pool, variant, nextId, run_logs, hist, storeVars, dashVars, linkVars>>

\* ---------------------------------------------------------------- queries
RECURSIVE SelectSeq2(_, _)
\* Array.prototype.filter on shop_domain
SelectSeq2(seq, shopDomain) ==
    IF seq = <<>> THEN <<>>
    ELSE (IF Head(seq).shop_domain = shopDomain THEN <<Head(seq)>> ELSE <<>>) \o SelectSeq2(Tail(seq), shopDomain)

RECURSIVE SelectById(_, _)
\* the elements of memory.runs with the id, in array order (find takes the first)
SelectById(seq, runId) ==
    IF seq = <<>> THEN <<>>
    ELSE (IF Head(seq).id = runId THEN <<Head(seq)>> ELSE <<>>) \o SelectById(Tail(seq), runId)

Min(a, b) == IF a <= b THEN a ELSE b

\* arr.slice(0, n)  /  LIMIT n
FirstN(seq, n) == SubSeq(seq, 1, Min(n, Len(seq)))

\* arr.slice(-n): -0 is 0, so slice(-0) is the whole array
SliceLast(seq, n) == IF n = 0 \/ n >= Len(seq) THEN seq ELSE SubSeq(seq, Len(seq) - n + 1, Len(seq))

RECURSIVE RunsByStartedAsc(_)
\* mutant: ORDER BY started_at ASC
RunsByStartedAsc(S) ==
    IF S = {} THEN <<>>
    ELSE LET r == CHOOSE x \in S : \A y \in S : x.started_at <= y.started_at
         IN  <<r>> \o RunsByStartedAsc(S \ {r})

RECURSIVE RunsByStartedDesc(_)
\* ORDER BY started_at DESC (every statement reads a later NOW(), so no ties)
RunsByStartedDesc(S) ==
    IF S = {} THEN <<>>
    ELSE LET r == CHOOSE x \in S : \A y \in S : x.started_at >= y.started_at
         IN  <<r>> \o RunsByStartedDesc(S \ {r})

RECURSIVE LogsByCreatedAsc(_)
\* ORDER BY created_at ASC
LogsByCreatedAsc(S) ==
    IF S = {} THEN <<>>
    ELSE LET r == CHOOSE x \in S : \A y \in S : x.created_at <= y.created_at
         IN  <<r>> \o LogsByCreatedAsc(S \ {r})

\* the rows listRuns returns
listRunsResult(shopDomain, limit) ==
    IF ~hasDb
    THEN FirstN(SelectSeq2(memory.runs, shopDomain), limit)
    ELSE FirstN(RunsByStartedDesc({r \in runs : r.shop_domain = shopDomain}), limit)

\* the {run, logs} getRunWithLogs returns; run is <<>> for null, <<r>> otherwise
getRunWithLogsResult(runId, logLimit) ==
    IF ~hasDb
    THEN [run |-> FirstN(SelectById(memory.runs, runId), 1),
          logs |-> SliceLast(MemLogsOf(runId), logLimit)]
    ELSE [run |-> RunsByStartedDesc({r \in runs : r.id = runId}),
          logs |-> FirstN(LogsByCreatedAsc({l \in run_logs : l.run_id = runId}), logLimit)]

listRuns(shopDomain, limit) ==
    /\ last' = [NoOp EXCEPT !.op = "listRuns", !.shop = shopDomain]
    /\ UNCHANGED <<oauth, proc, pool, variant, clock, memory, ledgerVars, storeVars, dashVars, linkVars>>

getRunWithLogs(runId, logLimit) ==
    /\ last' = [NoOp EXCEPT !.op = "getRunWithLogs", !.id = runId]
    /\ UNCHANGED <<oauth, proc, pool, variant, clock, memory, ledgerVars, storeVars, dashVars, linkVars>>

\* ----------------------------------------------------------------- TOKENS
upsertShopToken(shopDomain, accessToken) ==
    /\ IF ~hasDb
       THEN /\ memory' = [memory EXCEPT !.tokens =
                   [k \in DOMAIN @ \cup {shopDomain} |-> IF k = shopDomain THEN accessToken ELSE @[k]]]
            /\ UNCHANGED <<shop_tokens, clock>>
       ELSE /\ clock' = clock + 1
            /\ shop_tokens' = {r \in shop_tokens : r.shop_domain # shopDomain} \cup
                   {[shop_domain |-> shopDomain, access_token |-> accessToken, updated_at |-> clock + 1]}
            /\ UNCHANGED memory
    /\ last' = [NoOp EXCEPT !.op = "upsertShopToken", !.shop = shopDomain, !.key = accessToken]
    /\ UNCHANGED <<oauth, proc, pool, variant, processed_events, marks, p003, ledgerVars, dashVars, linkVars>>

\* mutant: the lookup without  || null
getShopTokenResultRaw(shopDomain) ==
    IF ~hasDb
    THEN IF shopDomain \in DOMAIN memory.tokens THEN memory.tokens[shopDomain] ELSE Undef
    ELSE IF \E r \in shop_tokens : r.shop_domain = shopDomain
         THEN (CHOOSE r \in shop_tokens : r.shop_domain = shopDomain).access_token
         ELSE Undef

\* what getShopToken returns: the token, or null
getShopTokenResult(shopDomain) ==
    IF ~hasDb
    THEN OrElse(IF shopDomain \in DOMAIN memory.tokens THEN memory.tokens[shopDomain] ELSE Undef, Null)
    ELSE IF \E r \in shop_tokens : r.shop_domain = shopDomain
         THEN OrElse((CHOOSE r \in shop_tokens : r.shop_domain = shopDomain).access_token, Null)
         ELSE Null

getShopToken(shopDomain) ==
    /\ last' = [NoOp EXCEPT !.op = "getShopToken", !.shop = shopDomain]
    /\ UNCHANGED <<oauth, proc, pool, variant, clock, memory, ledgerVars, storeVars, dashVars, linkVars>>

\* what getShopToken of the order-sync store returns: the in-memory branch
\* hands back Map.get as it is
getShopTokenResult_p003(shop) ==
    IF ~hasDb
    THEN IF shop \in DOMAIN memory.tokens THEN memory.tokens[shop] ELSE Undef
    ELSE IF \E r \in shop_tokens : r.shop_domain = shop
         THEN OrElse((CHOOSE r \in shop_tokens : r.shop_domain = shop).access_token, Null)
         ELSE Null

\* ------------------------------------------------------- PROCESSED EVENTS
\* mutant: ON CONFLICT (id) DO UPDATE SET created_at = NOW()
InsertProcessedOrUpdate(tbl, id, now) ==
    {r \in tbl : r.id # id} \cup {[id |-> id, created_at |-> now]}

\* mutant: the insert replaces the rows of the table
InsertProcessedAlone(tbl, id, now) == {[id |-> id, created_at |-> now]}

\* INSERT INTO processed_events (id) VALUES ($1) ON CONFLICT DO NOTHING
InsertProcessed(tbl, id, now) ==
    IF \E r \in tbl : r.id = id THEN tbl ELSE tbl \cup {[id |-> id, created_at |-> now]}

markProcessed(id) ==
    /\ IF ~hasDb
       THEN /\ memory' = [memory EXCEPT !.processed = @ \cup {id}]
            /\ UNCHANGED <<processed_events, clock>>
       ELSE /\ clock' = clock + 1
            /\ processed_events' = InsertProcessed(processed_events, id, clock + 1)
            /\ UNCHANGED memory
    /\ marks' = [marks EXCEPT ![id] = @ + 1]
    /\ last' = [NoOp EXCEPT !.op = "markProcessed", !.key = id]
    /\ UNCHANGED <<oauth, proc, pool, variant, shop_tokens, p003, ledgerVars, dashVars, linkVars>>

\* what isProcessed returns
isProcessedResult(id) ==
    IF ~hasDb THEN id \in memory.processed
    ELSE Cardinality({r \in processed_events : r.id = id}) > 0

isProcessed(id) ==
    /\ last' = [NoOp EXCEPT !.op = "isProcessed", !.key = id]
    /\ UNCHANGED <<oauth, proc, pool, variant, clock, memory, ledgerVars, storeVars, dashVars, linkVars>>

\* ----------------------------------------------- processed orders (order sync)
PlatformArgs == {"ebay", "ebay:1"}
OrderIdArgs == {"2", "1:2"}

\* `${platform}:${orderId}`
OrderKey(platform, orderId) == platform \o ":" \o orderId

\* markProcessed(platform, orderId) of the order-sync store
markProcessed_p003(platform, orderId) ==
    /\ IF ~hasDb
       THEN /\ p003' = [p003 EXCEPT !.PROCESSED = @ \cup {OrderKey(platform, orderId)},
                                    !.marked = @ \cup {<<platform, orderId>>}]
            /\ UNCHANGED clock
       ELSE /\ clock' = clock + 1
            /\ p003' = [p003 EXCEPT
                   !.processed_orders =
                       IF \E r \in @ : r.platform = platform /\ r.order_id = orderId THEN @
                       ELSE @ \cup {[platform |-> platform, order_id |-> orderId, created_at |-> clock + 1]},
                   !.marked = @ \cup {<<platform, orderId>>}]
    /\ last' = [NoOp EXCEPT !.op = "markProcessed", !.shop = platform, !.key = orderId]
    /\ UNCHANGED <<oauth, proc, pool, variant, memory, shop_tokens, processed_events, marks,
                   ledgerVars, dashVars, linkVars>>

\* what isProcessed(platform, orderId) returns
isProcessedResult_p003(platform, orderId) ==
    IF ~hasDb THEN OrderKey(platform, orderId) \in p003.PROCESSED
    ELSE Cardinality({r \in p003.processed_orders : r.platform = platform /\ r.order_id = orderId}) > 0

isProcessed_p003(platform, orderId) ==
    /\ last' = [NoOp EXCEPT !.op = "isProcessed", !.shop = platform, !.key = orderId]
    /\ UNCHANGED <<oauth, proc, pool, variant, clock, memory, ledgerVars, storeVars, dashVars, linkVars>>

\* ------------------------------------------------------- dashboard store
\* the run createRun puts in memory.runs: its id is Date.now()
NewSyncRunMem(shopDomain, jobType, now) ==
    [id |-> now, shop_domain |-> shopDomain, job_type |-> jobType, status |-> "running",
     started_at |-> now, finished_at |-> NullTime, duration_ms |-> NullTime, summary |-> Undef, error |-> Undef]

\* the row createRun inserts into sync_runs: its id is the next BIGSERIAL value
NewSyncRunPg(id, shopDomain, jobType, now) ==
    [id |-> id, shop_domain |-> shopDomain, job_type |-> jobType, status |-> "running",
     started_at |-> now, finished_at |-> NullTime, duration_ms |-> NullTime, summary |-> Null, error |-> Null]

createRun_dash(shopDomain, jobType) ==
    /\ IF ~hasDb
       THEN /\ dash' = [dash EXCEPT !.runs = <<NewSyncRunMem(shopDomain, jobType, clock)>> \o @]
            /\ last' = [NoOp EXCEPT !.op = "createRun", !.id = clock, !.shop = shopDomain]
            /\ UNCHANGED <<sync_runs, clock>>
       ELSE /\ clock' = clock + 1
            /\ sync_runs' = sync_runs \cup {NewSyncRunPg(Cardinality(sync_runs) + 1, shopDomain, jobType, clock + 1)}
            /\ last' = [NoOp EXCEPT !.op = "createRun", !.id = Cardinality(sync_runs) + 1, !.shop = shopDomain]
            /\ UNCHANGED dash
    /\ UNCHANGED <<oauth, proc, pool, variant, memory, app_logs, ledgerVars, storeVars, linkVars>>

\* memory.runs.find(r => r.id === id): the index of the first match, 0 if none
FindSyncRun(id) ==
    IF \E i \in DOMAIN dash.runs : dash.runs[i].id = id
    THEN CHOOSE i \in DOMAIN dash.runs :
            /\ dash.runs[i].id = id
            /\ \A j \in DOMAIN dash.runs : dash.runs[j].id = id => i <= j
    ELSE 0

finishRun_dash(id, status, durationMs, summary, error) ==
    /\ IF ~hasDb
       THEN /\ dash' = [dash EXCEPT !.runs =
                   [i \in DOMAIN @ |->
                       IF i = FindSyncRun(id)
                       THEN [@[i] EXCEPT !.status = status, !.finished_at = clock, !.duration_ms = durationMs,
                                         !.summary = summary, !.error = error]
                       ELSE @[i]]]
            /\ UNCHANGED <<sync_runs, clock>>
       ELSE /\ clock' = clock + 1
            /\ sync_runs' = {IF r.id = id
                             THEN [r EXCEPT !.status = status, !.finished_at = clock + 1, !.duration_ms = durationMs,
                                            !.summary = OrElse(summary, Null), !.error = ToParam(error)]
                             ELSE r : r \in sync_runs}
            /\ UNCHANGED dash
    /\ last' = [NoOp EXCEPT !.op = "finishRun", !.id = id, !.status = status, !.summary = summary]
    /\ UNCHANGED <<oauth, proc, pool, variant, memory, app_logs, ledgerVars, storeVars, linkVars>>

\* the rows listRuns of the dashboard store returns
listRuns_dashResult(shopDomain, limit) ==
    IF ~hasDb
    THEN FirstN(dash.runs, limit)
    ELSE FirstN(RunsByStartedDesc({r \in sync_runs : r.shop_domain = shopDomain}), limit)

\* the row getLastRun returns: <<>> for null
getLastRunResult(shopDomain) ==
    IF ~hasDb
    THEN FirstN(dash.runs, 1)
    ELSE FirstN(RunsByStartedDesc({r \in sync_runs : r.shop_domain = shopDomain}), 1)

listRuns_dash(shopDomain, limit) ==
    /\ last' = [NoOp EXCEPT !.op = "listRuns", !.shop = shopDomain]
    /\ UNCHANGED <<oauth, proc, pool, variant, clock, memory, ledgerVars, storeVars, dashVars, linkVars>>

getLastRun(shopDomain) ==
    /\ last' = [NoOp EXCEPT !.op = "getLastRun", !.shop = shopDomain]
    /\ UNCHANGED <<oauth, proc, pool, variant, clock, memory, ledgerVars, storeVars, dashVars, linkVars>>

\* logEvent of the dashboard store: unshift in memory, INSERT INTO app_logs
logEvent(shopDomain, level, message, meta) ==
    /\ IF ~hasDb
       THEN /\ dash' = [dash EXCEPT !.logs =
                   <<[shop_domain |-> shopDomain, level |-> level, message |-> message,
                      meta |-> Default(meta, Null), created_at |-> clock]>> \o @]
            /\ UNCHANGED <<app_logs, clock>>
       ELSE /\ clock' = clock + 1
            /\ app_logs' = app_logs \cup
                   {[id |-> Cardinality(app_logs) + 1, shop_domain |-> shopDomain, level |-> level,
                     message |-> message, meta |-> OrElse(Default(meta, Null), Null), created_at |-> clock + 1]}
            /\ UNCHANGED dash
    /\ last' = [NoOp EXCEPT !.op = "logEvent", !.shop = shopDomain, !.message = message]
    /\ UNCHANGED <<oauth, proc, pool, variant, memory, sync_runs, ledgerVars, storeVars, linkVars>>

RECURSIVE LogsByCreatedDesc(_)
\* ORDER BY created_at DESC
LogsByCreatedDesc(S) ==
    IF S = {} THEN <<>>
    ELSE LET r == CHOOSE x \in S : \A y \in S : x.created_at >= y.created_at
         IN  <<r>> \o LogsByCreatedDesc(S \ {r})

\* the rows listLogs returns
listLogsResult(shopDomain, limit) ==
    IF ~hasDb
    THEN FirstN(dash.logs, limit)
    ELSE FirstN(LogsByCreatedDesc({l \in app_logs : l.shop_domain = shopDomain}), limit)

listLogs(shopDomain, limit) ==
    /\ last' = [NoOp EXCEPT !.op = "listLogs", !.shop = shopDomain]
    /\ UNCHANGED <<oauth, proc, pool, variant, clock, memory, ledgerVars, storeVars, dashVars, linkVars>>

\* --------------------------------------------------------- link registry
\* the shops table: one row per shop, overwritten on re-auth
upsertShopToken_shops(shop, accessToken, scope) ==
    /\ shops' = {r \in shops : r.shop # shop} \cup
           {[shop |-> shop, access_token |-> accessToken, scope |-> OrElse(scope, Null)]}
    /\ last' = [NoOp EXCEPT !.op = "upsertShopToken", !.shop = shop, !.key = accessToken]
    /\ UNCHANGED <<oauth, proc, pool, variant, clock, memory, ebay_links, ebayCalls, ledgerVars, storeVars, dashVars>>

\* SELECT access_token FROM shops WHERE shop=$1, or null
getShopToken_shopsResult(shop) ==
    IF \E r \in shops : r.shop = shop
    THEN OrElse((CHOOSE r \in shops : r.shop = shop).access_token, Null)
    ELSE Null

\* the row upsertEbayLink offers for insertion: the parameters $1..$8
ExcludedLink(shop, shopifyProductId, shopifyVariantId, sku, ebayOfferId, ebayListingId, status, lastError) ==
    [shop |-> shop, shopify_product_id |-> ToParam(shopifyProductId), shopify_variant_id |-> ToParam(shopifyVariantId),
     sku |-> sku, ebay_offer_id |-> OrElse(ebayOfferId, Null), ebay_listing_id |-> OrElse(ebayListingId, Null),
     status |-> OrElse(status, "linked"), last_error |-> OrElse(lastError, Null)]

\* mutant: DO UPDATE SET ebay_offer_id=EXCLUDED.ebay_offer_id, ebay_listing_id=EXCLUDED.ebay_listing_id
MergeLinkOverwrite(old, excluded) ==
    [old EXCEPT !.shopify_product_id = excluded.shopify_product_id,
                !.shopify_variant_id = excluded.shopify_variant_id,
                !.ebay_offer_id = excluded.ebay_offer_id,
                !.ebay_listing_id = excluded.ebay_listing_id,
                !.status = Coalesce(excluded.status, old.status),
                !.last_error = excluded.last_error]

\* mutant: last_error=COALESCE(EXCLUDED.last_error, ebay_links.last_error)
MergeLinkKeepError(old, excluded) ==
    [old EXCEPT !.shopify_product_id = excluded.shopify_product_id,
                !.shopify_variant_id = excluded.shopify_variant_id,
                !.ebay_offer_id = Coalesce(excluded.ebay_offer_id, old.ebay_offer_id),
                !.ebay_listing_id = Coalesce(excluded.ebay_listing_id, old.ebay_listing_id),
                !.status = Coalesce(excluded.status, old.status),
                !.last_error = Coalesce(excluded.last_error, old.last_error)]

\* mutant: the update keeps the stored product and variant ids
MergeLinkKeepIds(old, excluded) ==
    [old EXCEPT !.ebay_offer_id = Coalesce(excluded.ebay_offer_id, old.ebay_offer_id),
                !.ebay_listing_id = Coalesce(excluded.ebay_listing_id, old.ebay_listing_id),
                !.status = Coalesce(excluded.status, old.status),
                !.last_error = excluded.last_error]

\* ON CONFLICT (shop, sku) DO UPDATE SET ...
MergeLink(old, excluded) ==
    [old EXCEPT !.shopify_product_id = excluded.shopify_product_id,
                !.shopify_variant_id = excluded.shopify_variant_id,
                !.ebay_offer_id = Coalesce(excluded.ebay_offer_id, old.ebay_offer_id),
                !.ebay_listing_id = Coalesce(excluded.ebay_listing_id, old.ebay_listing_id),
                !.status = Coalesce(excluded.status, old.status),
                !.last_error = excluded.last_error]

\* the row the INSERT stores: the statement names no updated_at, so the
\* column takes the time of the insert; the DO UPDATE branch does not set it
InsertedLink(excluded, now) ==
    [shop |-> excluded.shop, sku |-> excluded.sku,
     shopify_product_id |-> excluded.shopify_product_id, shopify_variant_id |-> excluded.shopify_variant_id,
     ebay_offer_id |-> excluded.ebay_offer_id, ebay_listing_id |-> excluded.ebay_listing_id,
     status |-> excluded.status, last_error |-> excluded.last_error, updated_at |-> now]

upsertEbayLink(shop, shopifyProductId, shopifyVariantId, sku, ebayOfferId, ebayListingId, status, lastError) ==
    LET excluded == ExcludedLink(shop, shopifyProductId, shopifyVariantId, sku, ebayOfferId, ebayListingId, status, lastError)
    IN  /\ ebay_links' =
              IF \E r \in ebay_links : r.shop = shop /\ r.sku = sku
              THEN {IF r.shop = shop /\ r.sku = sku THEN MergeLink(r, excluded) ELSE r : r \in ebay_links}
              ELSE ebay_links \cup {InsertedLink(excluded, clock + 1)}
        /\ clock' = IF \E r \in ebay_links : r.shop = shop /\ r.sku = sku THEN clock ELSE clock + 1
        /\ last' = [NoOp EXCEPT !.op = "upsertEbayLink", !.shop = shop, !.key = sku, !.offerId = ebayOfferId,
                                !.listingId = ebayListingId, !.status = status, !.lastError = lastError,
                                !.productId = shopifyProductId, !.variantId = shopifyVariantId]
        /\ UNCHANGED <<oauth, proc, pool, variant, memory, shops, ebayCalls, ledgerVars, storeVars, dashVars>>

\* what getEbayLinkBySku returns: <<>> for null, <<row>> otherwise
getEbayLinkBySkuResult(shop, sku) ==
    IF \E r \in ebay_links : r.shop = shop /\ r.sku = sku
    THEN <<CHOOSE r \in ebay_links : r.shop = shop /\ r.sku = sku>>
    ELSE <<>>

getEbayLinkBySku(shop, sku) ==
    /\ last' = [NoOp EXCEPT !.op = "getEbayLinkBySku", !.shop = shop, !.key = sku]
    /\ UNCHANGED <<oauth, proc, pool, variant, clock, memory, ledgerVars, storeVars, dashVars, linkVars>>

RECURSIVE LinksByUpdatedDesc(_)
\* ORDER BY updated_at DESC
LinksByUpdatedDesc(S) ==
    IF S = {} THEN <<>>
    ELSE LET r == CHOOSE x \in S : \A y \in S : x.updated_at >= y.updated_at
         IN  <<r>> \o LinksByUpdatedDesc(S \ {r})

\* the rows listEbayLinks returns
listEbayLinksResult(shop, limit) ==
    FirstN(LinksByUpdatedDesc({r \in ebay_links : r.shop = shop}), limit)

listEbayLinks(shop, limit) ==
    /\ last' = [NoOp EXCEPT !.op = "listEbayLinks", !.shop = shop]
    /\ UNCHANGED <<oauth, proc, pool, variant, clock, memory, ledgerVars, storeVars, dashVars, linkVars>>

\* ------------------------------------------------------- webhook handlers
\* the request a webhook event carries: redeliveries of an event repeat it
EventBody(e) ==
    IF e = "e1"
    THEN [shop |-> "a.myshopify.com", variants |-> <<[sku |-> "SKU1", price |-> "10"], [sku |-> "", price |-> "11"]>>]
    ELSE [shop |-> "a.myshopify.com", variants |-> <<[sku |-> "SKU2", price |-> "20"], [sku |-> "SKU1", price |-> "10"]>>]

\* Number(v.price) on the price strings the events carry
Number(str) == CASE str = "10" -> 10 [] str = "11" -> 11 [] str = "20" -> 20

RECURSIVE OfferUpdatesAnyLink(_, _, _, _)
\* mutant: the loop without  if (!link?.ebay_offer_id) continue  for a link with a null offer id
OfferUpdatesAnyLink(shop, variants, qty, failAt) ==
    IF variants = <<>> THEN <<>>
    ELSE LET v == Head(variants)
             link == getEbayLinkBySkuResult(shop, v.sku)
         IN  IF Falsy(v.sku) \/ link = <<>>
             THEN OfferUpdatesAnyLink(shop, Tail(variants), qty, failAt - 1)
             ELSE IF failAt = 1
             THEN <<>>
             ELSE <<[offerId |-> link[1].ebay_offer_id, sku |-> v.sku, price |-> Number(v.price), quantity |-> qty]>>
                     \o OfferUpdatesAnyLink(shop, Tail(variants), qty, failAt - 1)

RECURSIVE OfferUpdates(_, _, _, _)
\* the updateOfferPriceQty calls of the loop over payload.variants; the external
\* call made for the variant at position failAt throws and ends the handler
OfferUpdates(shop, variants, qty, failAt) ==
    IF variants = <<>> THEN <<>>
    ELSE LET v == Head(variants)
             link == getEbayLinkBySkuResult(shop, v.sku)
         IN  IF Falsy(v.sku) \/ link = <<>> \/ Falsy(link[1].ebay_offer_id)
             THEN OfferUpdates(shop, Tail(variants), qty, failAt - 1)
             ELSE IF failAt = 1
             THEN <<>>
             ELSE <<[offerId |-> link[1].ebay_offer_id, sku |-> v.sku, price |-> Number(v.price), quantity |-> qty]>>
                     \o OfferUpdates(shop, Tail(variants), qty, failAt - 1)

\* whether the loop over the variants reaches an external call that throws
Throws(shop, variants, failAt) ==
    \E k \in DOMAIN variants :
       /\ k = failAt
       /\ ~Falsy(variants[k].sku)
       /\ getEbayLinkBySkuResult(shop, variants[k].sku) # <<>>
       /\ ~Falsy(getEbayLinkBySkuResult(shop, variants[k].sku)[1].ebay_offer_id)

\* POST /webhooks/products-update
products_update(e, hmacOk, qty, failAt) ==
    LET shop == EventBody(e).shop
        variants == EventBody(e).variants
    IN  /\ IF ~hmacOk
           THEN /\ last' = [NoOp EXCEPT !.op = "products-update", !.key = e, !.shop = shop, !.status = "401",
                                        !.hmac = hmacOk]
                /\ UNCHANGED ebayCalls
           ELSE IF getShopToken_shopsResult(shop) = Null
           THEN /\ last' = [NoOp EXCEPT !.op = "products-update", !.key = e, !.shop = shop, !.status = "ignored",
                                        !.hmac = hmacOk]
                /\ UNCHANGED ebayCalls
           ELSE /\ ebayCalls' = [ebayCalls EXCEPT ![e] = @ \o OfferUpdates(shop, variants, qty, failAt)]
                /\ last' = [NoOp EXCEPT !.op = "products-update", !.key = e, !.shop = shop,
                                        !.status = IF Throws(shop, variants, failAt) THEN "threw" ELSE "OK",
                                        !.hmac = hmacOk, !.err = Throws(shop, variants, failAt)]
        /\ UNCHANGED <<oauth, proc, pool, variant, clock, memory, shops, ebay_links, ledgerVars, storeVars, dashVars>>

\* POST /webhooks/shopify: verifies, parses, logs the topic and answers
webhooks_shopify(e, hmacOk, jsonOk) ==
    /\ last' = [NoOp EXCEPT !.op = "webhooks/shopify", !.key = e,
                            !.status = IF ~hmacOk THEN "401" ELSE IF jsonOk THEN "200" ELSE "500"]
    /\ UNCHANGED <<oauth, proc, pool, variant, clock, memory, ledgerVars, storeVars, dashVars, linkVars>>

\* whether a token / a run is stored under the key
TokenStored(shop) ==
    IF ~hasDb THEN shop \in DOMAIN memory.tokens ELSE \E r \in shop_tokens : r.shop_domain = shop
RunStored(runId) ==
    IF ~hasDb THEN \E k \in DOMAIN memory.runs : memory.runs[k].id = runId ELSE RunExists(runId)

\* --------------------------------------------------------- POST /api/sync/run
\* the handler awaits one store call after the other; where it stands is read
\* off the last call made and the entries logged so far for the run it created
SyncMessages ==
    <<"Sync avviata", "Controllo token", "Step 1/3", "Step 2/3", "Step 3/3", "Sync completata">>

\* no request is being handled
SyncIdle == last.op \in {"init", "respond", "upsertShopToken", "GET /api/run/:id", "GET /api/runs"}

\* 401 when the shop has no token
sync_notInstalled(shop) ==
    /\ SyncIdle
    /\ getShopTokenResult(shop) = Null
    /\ last' = [NoOp EXCEPT !.op = "respond", !.shop = shop, !.status = "401"]
    /\ UNCHANGED <<oauth, proc, pool, variant, clock, memory, ledgerVars, storeVars, dashVars, linkVars>>

\* const runId = await createRun({ shopDomain: shop, trigger, summary: { mode: "demo" } })
sync_createRun(shop) ==
    /\ SyncIdle
    /\ getShopTokenResult(shop) # Null
    /\ createRun(shop, "manual", "S1")

\* the five addRunLog calls before finishRun
sync_addRunLog ==
    /\ last.op \in {"createRun", "addRunLog"}
    /\ Len(hist[last.id]) < 5
    /\ addRunLog(last.id, "info", SyncMessages[Len(hist[last.id]) + 1], Undef)

\* await finishRun(runId, { status: "success", summary: {...} })
sync_finishRun ==
    /\ last.op = "addRunLog"
    /\ Len(hist[last.id]) = 5
    /\ finishRun(last.id, "success", "S2")

\* the addRunLog call that follows finishRun
sync_addRunLogLast ==
    /\ last.op = "finishRun"
    /\ addRunLog(last.id, "info", SyncMessages[6], Undef)

\* return res.json({ ok: true, runId })
sync_respond ==
    /\ last.op = "addRunLog"
    /\ Len(hist[last.id]) = 6
    /\ last' = [NoOp EXCEPT !.op = "respond", !.id = last.id, !.status = "200"]
    /\ UNCHANGED <<oauth, proc, pool, variant, clock, memory, ledgerVars, storeVars, dashVars, linkVars>>

\* an awaited store call rejects (pool.query fails): the catch block logs to
\* the console and answers 500
sync_catch ==
    /\ last.op \in {"createRun", "addRunLog", "finishRun"}
    /\ hasDb
    /\ last' = [NoOp EXCEPT !.op = "respond", !.id = last.id, !.status = "500", !.err = TRUE]
    /\ UNCHANGED <<oauth, proc, pool, variant, clock, memory, ledgerVars, storeVars, dashVars, linkVars>>

\* --------------------------------------------------------- GET /api/run/:id
\* the shop values a request can carry: the two shops and a missing parameter
ShopArgs == Shops \cup {Undef}

\* typeof shop === "string" && /^[a-zA-Z0-9][a-zA-Z0-9\-]*\.myshopify\.com$/.test(shop)
isValidShop(shop) == shop \in {"a.myshopify.com", "b.myshopify.com"}

\* mutant: the handler without the ownership check
api_runResultUnchecked(shop, runId) ==
    IF ~isValidShop(shop) THEN [status |-> "400", run |-> <<>>, logs |-> <<>>]
    ELSE IF Falsy(getShopTokenResult(shop)) THEN [status |-> "401", run |-> <<>>, logs |-> <<>>]
    ELSE [status |-> "200", run |-> getRunWithLogsResult(runId, 400).run, logs |-> getRunWithLogsResult(runId, 400).logs]

\* the response of GET /api/run/:id?shop=...
api_runResult(shop, runId) ==
    IF ~isValidShop(shop) THEN [status |-> "400", run |-> <<>>, logs |-> <<>>]
    ELSE IF Falsy(getShopTokenResult(shop)) THEN [status |-> "401", run |-> <<>>, logs |-> <<>>]
    ELSE LET data == getRunWithLogsResult(runId, 400)
         IN  IF data.run # <<>> /\ ~Falsy(data.run[1].shop_domain) /\ data.run[1].shop_domain # shop
             THEN [status |-> "403", run |-> <<>>, logs |-> <<>>]
             ELSE [status |-> "200", run |-> data.run, logs |-> data.logs]

api_run(shop, runId) ==
    /\ last' = [NoOp EXCEPT !.op = "GET /api/run/:id", !.shop = shop, !.id = runId,
                            !.status = api_runResult(shop, runId).status]
    /\ UNCHANGED <<oauth, proc, pool, variant, clock, memory, ledgerVars, storeVars, dashVars, linkVars>>

\* POST /api/sync/run: 400 when the shop parameter is invalid
sync_invalidShop(shop) ==
    /\ SyncIdle
    /\ ~isValidShop(shop)
    /\ last' = [NoOp EXCEPT !.op = "respond", !.shop = shop, !.status = "400"]
    /\ UNCHANGED <<oauth, proc, pool, variant, clock, memory, ledgerVars, storeVars, dashVars, linkVars>>

\* ------------------------------------------------------------ GET /api/runs
\* mutant: the handler without the token check
api_runsResultOpen(shop) ==
    IF ~isValidShop(shop) THEN [status |-> "400", runs |-> <<>>]
    ELSE [status |-> "200", runs |-> listRunsResult(shop, 30)]

\* the response of GET /api/runs?shop=...
api_runsResult(shop) ==
    IF ~isValidShop(shop) THEN [status |-> "400", runs |-> <<>>]
    ELSE IF Falsy(getShopTokenResult(shop)) THEN [status |-> "401", runs |-> <<>>]
    ELSE [status |-> "200", runs |-> listRunsResult(shop, 30)]

api_runs(shop) ==
    /\ last' = [NoOp EXCEPT !.op = "GET /api/runs", !.shop = shop, !.status = api_runsResult(shop).status]
    /\ UNCHANGED <<oauth, proc, pool, variant, clock, memory, ledgerVars, storeVars, dashVars, linkVars>>

\* ---------------------------------------------------------------- startup
\* the three server files: the two of app.js and the ESM app
Apps == {"v1", "v2", "esm"}
\* the required settings: all present, SHOPIFY_APP_URL missing, SHOPIFY_CLIENT_ID missing
EnvArgs == {"ok", "noUrl", "noId"}

\* loading the server file.  v1 and v2 log the missing setting and go on; v2
\* then evaluates new URL(SHOPIFY_APP_URL), which throws without the URL, and
\* hands the rest to shopifyApi, which may reject it; the ESM app reads every
\* setting through requiredEnv, which throws, and creates its pool on import
loadConfig ==
    /\ proc.phase = "load"
    /\ \E next \in {"boot", "initDone", "exited"} :
          /\ CASE proc.app = "v1" -> next = "boot"
               [] proc.app = "v2" /\ proc.env = "ok" -> next = "boot"
               [] proc.app = "v2" /\ proc.env = "noUrl" -> next = "exited"
               [] proc.app = "v2" /\ proc.env = "noId" -> next \in {"boot", "exited"}
               [] proc.app = "esm" /\ proc.env = "ok" -> next = "initDone"
               [] proc.app = "esm" /\ proc.env # "ok" -> next = "exited"
          /\ proc' = [proc EXCEPT !.phase = next]
    /\ pool' = (proc.app = "esm")
    /\ last' = [NoOp EXCEPT !.op = "loadConfig"]
    /\ UNCHANGED <<oauth, variant, clock, memory, ledgerVars, storeVars, dashVars, linkVars>>

\* initDb: without DATABASE_URL it returns and the store stays in memory; with
\* it the pool is created first and the CREATE TABLE queries run on it
initDb ==
    /\ proc.phase = "boot"
    /\ pool' = proc.url
    /\ proc' = [proc EXCEPT !.phase = IF proc.url /\ ~proc.reachable THEN "initThrew" ELSE "initDone"]
    /\ last' = [NoOp EXCEPT !.op = "initDb", !.err = proc.url /\ ~proc.reachable]
    /\ UNCHANGED <<oauth, variant, clock, memory, ledgerVars, storeVars, dashVars, linkVars>>

\* the start block of the app: v1 catches the error of initDb, logs it and
\* calls app.listen; v2 calls app.listen in then() and process.exit(1) in catch()
start ==
    /\ proc.phase \in {"initDone", "initThrew"}
    /\ proc' = [proc EXCEPT !.phase =
                   IF proc.phase = "initThrew" /\ proc.app = "v2" THEN "exited" ELSE "listening"]
    /\ last' = [NoOp EXCEPT !.op = "start"]
    /\ UNCHANGED <<oauth, pool, variant, clock, memory, ledgerVars, storeVars, dashVars, linkVars>>

\* a store call of a request handler while the database cannot be reached:
\* pool.query rejects
queryRejects(shopDomain) ==
    /\ proc.phase = "listening" /\ hasDb /\ ~proc.reachable
    /\ last' = [NoOp EXCEPT !.op = "getShopToken", !.shop = shopDomain, !.err = TRUE]
    /\ UNCHANGED <<oauth, proc, pool, variant, clock, memory, ledgerVars, storeVars, dashVars, linkVars>>

\* ------------------------------------------------------------ OAuth
\* const STATE_TTL_MS = 10 * 60 * 1000, in clock readings
STATE_TTL_MS == 1
\* the state values randomState returns: the n-th call returns n
StateArgs == 1..MaxStates
CodeArgs == {Undef, "c1"}
\* what the token exchange answers: not ok, or a body with this access_token
ExchangeArgs == {"notOk", Undef, "", "t1"}

\* oauthStates.set(state, { ...payload, createdAt: Date.now() })
putState(states, state, shop, now) ==
    {v \in states : v.state # state} \cup {[state |-> state, shop |-> shop, createdAt |-> now]}

\* mutant: getState without the expiry test
getStateNoExpiry(states, state, now) == {v \in states : v.state = state}

\* what getState returns: {} for null, {v} otherwise
getState(states, state, now) ==
    {v \in states : v.state = state /\ ~(now - v.createdAt > STATE_TTL_MS)}

\* the map after getState: an expired entry is deleted
AfterGetState(states, state, now) ==
    {v \in states : v.state # state \/ getState(states, state, now) # {}}

\* oauthStates.delete(state)
delState(states, state) == {v \in states : v.state # state}

\* GET /auth
auth(shop) ==
    /\ IF ~isValidShop(shop)
       THEN /\ UNCHANGED oauth
            /\ last' = [NoOp EXCEPT !.op = "auth", !.shop = shop, !.status = "400"]
       ELSE LET state == Cardinality(oauth.issued) + 1
            IN  /\ oauth' = [oauth EXCEPT
                       !.states = putState(@, state, shop, clock),
                       !.issued = @ \cup {[state |-> state, shop |-> shop, createdAt |-> clock]},
                       !.stores = @ \o <<0>>]
                /\ last' = [NoOp EXCEPT !.op = "auth", !.shop = shop, !.id = state, !.status = "302"]
    /\ UNCHANGED <<proc, pool, variant, clock, memory, ledgerVars, storeVars, dashVars, linkVars>>

\* GET /auth/callback up to the awaited fetch of the token exchange
auth_callback(h, shop, code, state, okHmac) ==
    /\ oauth.cb[h].pc = "idle"
    /\ IF ~isValidShop(shop) \/ Falsy(code) \/ state = 0
       THEN /\ UNCHANGED oauth
            /\ last' = [NoOp EXCEPT !.op = "auth_callback", !.shop = shop, !.id = state, !.status = "400"]
       ELSE LET st == getState(oauth.states, state, clock)
            IN  IF st = {} \/ (\E v \in st : v.shop # shop)
                THEN /\ oauth' = [oauth EXCEPT !.states = AfterGetState(@, state, clock)]
                     /\ last' = [NoOp EXCEPT !.op = "auth_callback", !.shop = shop, !.id = state, !.status = "400"]
                ELSE IF ~okHmac
                THEN /\ UNCHANGED oauth
                     /\ last' = [NoOp EXCEPT !.op = "auth_callback", !.shop = shop, !.id = state, !.status = "400"]
                ELSE /\ oauth' = [oauth EXCEPT !.cb[h] =
                            [pc |-> "fetch", shop |-> shop, state |-> state, okHmac |-> okHmac, at |-> clock, token |-> Undef]]
                     /\ last' = [NoOp EXCEPT !.op = "auth_callback", !.shop = shop, !.id = state]
    /\ UNCHANGED <<proc, pool, variant, clock, memory, ledgerVars, storeVars, dashVars, linkVars>>

\* the token exchange answers: tokenResp.ok, data.access_token
auth_callback_fetch(h, resp) ==
    /\ oauth.cb[h].pc = "fetch"
    /\ IF resp = "notOk" \/ Falsy(resp)
       THEN /\ oauth' = [oauth EXCEPT !.cb[h] = CbIdle]
            /\ last' = [NoOp EXCEPT !.op = "auth_callback", !.shop = oauth.cb[h].shop, !.id = oauth.cb[h].state,
                                    !.status = "500"]
       ELSE /\ oauth' = [oauth EXCEPT !.cb[h].pc = "upsert", !.cb[h].token = resp]
            /\ last' = [NoOp EXCEPT !.op = "auth_callback_fetch", !.shop = oauth.cb[h].shop, !.id = oauth.cb[h].state]
    /\ UNCHANGED <<proc, pool, variant, clock, memory, ledgerVars, storeVars, dashVars, linkVars>>

\* await upsertShopToken(shop, accessToken)
auth_callback_upsert(h) ==
    /\ oauth.cb[h].pc = "upsert"
    /\ IF ~hasDb
       THEN /\ memory' = [memory EXCEPT !.tokens =
                   [k \in DOMAIN @ \cup {oauth.cb[h].shop} |-> IF k = oauth.cb[h].shop THEN oauth.cb[h].token ELSE @[k]]]
            /\ UNCHANGED <<shop_tokens, clock>>
       ELSE /\ clock' = clock + 1
            /\ shop_tokens' = {r \in shop_tokens : r.shop_domain # oauth.cb[h].shop} \cup
                   {[shop_domain |-> oauth.cb[h].shop, access_token |-> oauth.cb[h].token, updated_at |-> clock + 1]}
            /\ UNCHANGED memory
    /\ oauth' = [oauth EXCEPT !.cb[h].pc = "delState", !.stores[oauth.cb[h].state] = @ + 1]
    /\ last' = [NoOp EXCEPT !.op = "upsertShopToken", !.shop = oauth.cb[h].shop, !.key = oauth.cb[h].token,
                            !.id = oauth.cb[h].state]
    /\ UNCHANGED <<proc, pool, variant, processed_events, marks, p003, ledgerVars, dashVars, linkVars>>

\* delState(state); res.redirect(...)
auth_callback_delState(h) ==
    /\ oauth.cb[h].pc = "delState"
    /\ oauth' = [oauth EXCEPT !.states = delState(@, oauth.cb[h].state), !.cb[h] = CbIdle]
    /\ last' = [NoOp EXCEPT !.op = "auth_callback", !.shop = oauth.cb[h].shop, !.id = oauth.cb[h].state,
                            !.status = "302"]
    /\ UNCHANGED <<proc, pool, variant, clock, memory, ledgerVars, storeVars, dashVars, linkVars>>

\* ------------------------------------------------------- specifications
\* the ids createRun has returned so far, and 0, an id it never returns
KnownIds == 0..(nextId - 1)

\* the bounds of a run: ids handed out, log entries written, clock readings
CanCreate == nextId <= MaxRuns /\ (hasDb => clock < MaxStmts)
CanFinish == hasDb => clock < MaxStmts
CanTick == clock < MaxClock

\* the run lifecycle: every status and summary argument, one tenant, one message
Next ==
    \/ CanTick /\ Tick
    \/ \E m \in SummaryArgs : CanCreate /\ createRun("a.myshopify.com", Undef, m)
    \/ \E i \in KnownIds : TotalLogs < MaxSideLogs /\ CanFinish /\ addRunLog(i, Undef, "A", Undef)
    \/ \E i \in KnownIds, s \in StatusArgs, m \in SummaryArgs : CanFinish /\ finishRun(i, s, m)
    \/ \E s \in Shops, n \in LimitArgs : listRuns(s, n)
    \/ \E i \in KnownIds, n \in LimitArgs : getRunWithLogs(i, n)

Spec == Init /\ [][Next]_vars

\* the run log: every level and message argument, one run
NextLogs ==
    \/ CanTick /\ Tick
    \/ nextId <= 1 /\ CanFinish /\ createRun("a.myshopify.com", Undef, Undef)
    \/ \E i \in KnownIds, l \in LevelArgs, m \in MessageArgs :
          TotalLogs < MaxLogs /\ CanFinish /\ addRunLog(i, l, m, Undef)
    \/ \E i \in KnownIds : CanFinish /\ finishRun(i, "error", "S1")
    \/ \E i \in KnownIds, n \in LimitArgs : getRunWithLogs(i, n)

SpecLogs == Init /\ [][NextLogs]_vars

\* the token store and the dedup ledger
NextStore ==
    \/ \E s \in Shops, t \in TokenArgs : CanFinish /\ upsertShopToken(s, t)
    \/ \E s \in Shops : getShopToken(s)
    \/ \E e \in EventIds : marks[e] < MaxMarks /\ CanFinish /\ markProcessed(e)
    \/ \E e \in EventIds : isProcessed(e)

SpecStore == Init /\ [][NextStore]_vars

\* the dashboard store: runs of two tenants
NextDash ==
    \/ CanTick /\ Tick
    \/ \E s \in Shops :
          Len(dash.runs) < MaxRuns /\ Cardinality(sync_runs) < MaxRuns /\ CanFinish /\ createRun_dash(s, "sync")
    \/ \E i \in 1..MaxStmts, s \in {"success", "error"}, d \in DurationArgs, m \in {Null, "S1"}, e \in {Null, "E1"} :
          CanFinish /\ finishRun_dash(i, s, d, m, e)
    \/ \E s \in Shops, n \in LimitArgs : listRuns_dash(s, n)
    \/ \E s \in Shops : getLastRun(s)

SpecDash == Init /\ [][NextDash]_vars

\* the link registry: every marketplace id, status and error argument
NextLinks ==
    \/ \E k \in Skus, p \in ProductArgs, o \in OfferArgs, l \in ListingArgs, s \in LinkStatusArgs, x \in ErrorArgs :
          upsertEbayLink("a.myshopify.com", p, "V1", k, o, l, s, x)
    \/ \E k \in Skus : getEbayLinkBySku("a.myshopify.com", k)
    \/ \E n \in LimitArgs : listEbayLinks("a.myshopify.com", n)

\* the link registry module always holds a connection pool
InitLinks == Init /\ pool /\ variant = "db"

SpecLinks == InitLinks /\ [][NextLinks]_vars

\* webhook deliveries against installed shops and their links
NextWebhook ==
    \/ \E s \in Shops : upsertShopToken_shops(s, "t1", Undef)
    \/ \E k \in Skus, o \in {Undef, "O1"} : upsertEbayLink("a.myshopify.com", "P1", "V1", k, o, Undef, Undef, Undef)
    \/ \E e \in EventIds, h \in BOOLEAN, q \in QtyArgs, f \in 0..2 :
          Len(ebayCalls[e]) < MaxCalls /\ products_update(e, h, q, f)
    \/ \E e \in EventIds, h \in BOOLEAN, j \in BOOLEAN : webhooks_shopify(e, h, j)

SpecWebhook == InitLinks /\ [][NextWebhook]_vars

\* lookups of stored and of absent tokens, runs and links
NextLookup ==
    \/ \E s \in Shops : CanFinish /\ upsertShopToken(s, "t1")
    \/ \E s \in Shops : getShopToken(s)
    \/ nextId <= 1 /\ CanFinish /\ createRun("a.myshopify.com", Undef, Undef)
    \/ \E i \in RunIdArgs, n \in LimitArgs : getRunWithLogs(i, n)
    \/ \E k \in Skus : upsertEbayLink("a.myshopify.com", "P1", "V1", k, "O1", Undef, Undef, Undef)
    \/ \E s \in Shops, k \in Skus : getEbayLinkBySku(s, k)

SpecLookup == Init /\ [][NextLookup]_vars

\* runs of two tenants, listed
NextList ==
    \/ CanTick /\ Tick
    \/ \E s \in Shops : CanCreate /\ createRun(s, Undef, Undef)
    \/ \E i \in KnownIds : TotalLogs < MaxSideLogs /\ CanFinish /\ addRunLog(i, Undef, "A", Undef)
    \/ \E i \in KnownIds, s \in StatusArgs : CanFinish /\ finishRun(i, s, Undef)
    \/ \E s \in Shops, n \in LimitArgs : listRuns(s, n)

SpecList == Init /\ [][NextList]_vars

\* runs of the run ledger and of the dashboard store, finished any number of times
NextFinish ==
    \/ CanTick /\ Tick
    \/ CanCreate /\ createRun("a.myshopify.com", Undef, Undef)
    \/ \E i \in KnownIds, s \in StatusArgs : CanFinish /\ finishRun(i, s, Undef)
    \/ Len(dash.runs) < MaxRuns /\ Cardinality(sync_runs) < MaxRuns /\ CanFinish /\ createRun_dash("a.myshopify.com", "sync")
    \/ \E i \in 1..MaxRuns, s \in {"success", "error"} : CanFinish /\ finishRun_dash(i, s, 12, Null, Null)

SpecFinish == Init /\ [][NextFinish]_vars

\* the process from its start: initDb, the start block, then requests
InitStartup ==
    /\ proc \in [app : Apps, env : EnvArgs, url : BOOLEAN, reachable : BOOLEAN, phase : {"load"}]
    /\ pool = FALSE
    /\ variant = "db"
    /\ clock = 1
    /\ nextId = 1
    /\ memory = [tokens |-> <<>>, processed |-> {}, runs |-> <<>>, runLogs |-> <<>>]
    /\ shop_tokens = {} /\ processed_events = {} /\ runs = {} /\ run_logs = {}
    /\ dash = [runs |-> <<>>, logs |-> <<>>] /\ sync_runs = {} /\ app_logs = {}
    /\ shops = {} /\ ebay_links = {}
    /\ ebayCalls = [e \in EventIds |-> <<>>]
    /\ last = NoOp
    /\ hist = [i \in RunIdArgs |-> <<>>]
    /\ marks = [e \in EventIds |-> 0]
    /\ oauth = NoOAuth
    /\ p003 = [PROCESSED |-> {}, processed_orders |-> {}, marked |-> {}]

\* requests are served once app.listen was called
Serving == proc.phase = "listening" /\ proc.app # "esm" /\ (hasDb => proc.reachable)

NextStartup ==
    \/ loadConfig
    \/ initDb
    \/ start
    \/ \E s \in Shops : queryRejects(s)
    \/ \E s \in Shops : Serving /\ CanFinish /\ upsertShopToken(s, "t1")
    \/ \E s \in Shops : Serving /\ getShopToken(s)
    \/ \E e \in EventIds : Serving /\ marks[e] < 1 /\ CanFinish /\ markProcessed(e)
    \/ \E e \in EventIds : Serving /\ isProcessed(e)

SpecStartup == InitStartup /\ [][NextStartup]_vars

\* sync requests of installed and of unknown shops, one after the other
NextSync ==
    \/ \E s \in Shops : SyncIdle /\ ~TokenStored(s) /\ upsertShopToken(s, "t1")
    \/ \E s \in Shops : sync_notInstalled(s)
    \/ \E s \in Shops : nextId <= MaxRuns /\ sync_createRun(s)
    \/ sync_addRunLog
    \/ sync_finishRun
    \/ sync_addRunLogLast
    \/ sync_respond
    \/ sync_catch

SpecSync == Init /\ [][NextSync]_vars

\* runs of two tenants with logs, read through the by-id endpoint
NextApi ==
    \/ \E s \in Shops : ~TokenStored(s) /\ upsertShopToken(s, "t1")
    \/ \E s \in Shops : CanCreate /\ createRun(s, Undef, Undef)
    \/ \E i \in KnownIds : TotalLogs < MaxSideLogs /\ CanFinish /\ addRunLog(i, Undef, "A", Undef)
    \/ \E s \in ShopArgs, i \in RunIdArgs : api_run(s, i)

SpecApi == Init /\ [][NextApi]_vars

\* links of three (tenant, sku) pairs, upserted with changing product and variant ids
NextLinkKeys ==
    \/ \E s \in Shops, k \in Skus, p \in ProductArgs, v \in VariantArgs :
          (s = "b.myshopify.com" => k = "SKU1") /\ upsertEbayLink(s, p, v, k, Undef, Undef, Undef, Undef)
    \/ \E s \in Shops, k \in Skus : getEbayLinkBySku(s, k)

SpecLinkKeys == InitLinks /\ [][NextLinkKeys]_vars

\* finishRun with every status a caller can pass: the declared ones, an
\* omitted one and a string outside the declared set
AnyStatusArgs == StatusArgs \cup {"done"}

NextStatus ==
    \/ CanTick /\ Tick
    \/ \E s \in Shops : CanCreate /\ createRun(s, Undef, Undef)
    \/ \E i \in KnownIds, s \in AnyStatusArgs : CanFinish /\ finishRun(i, s, Undef)
    \/ \E i \in KnownIds, n \in LimitArgs : getRunWithLogs(i, n)

SpecStatus == Init /\ [][NextStatus]_vars

\* the OAuth flow: /auth requests and two /auth/callback handlers
NextOAuth ==
    \/ clock < MaxAuthClock /\ Tick
    \/ \E s \in ShopArgs : Cardinality(oauth.issued) < MaxStates /\ auth(s)
    \/ \E h \in Handlers, s \in ShopArgs, c \in CodeArgs, st \in {0} \cup StateArgs, ok \in BOOLEAN :
          auth_callback(h, s, c, st, ok)
    \/ \E h \in Handlers, r \in ExchangeArgs : auth_callback_fetch(h, r)
    \/ \E h \in Handlers :
          /\ oauth.cb[h].pc = "upsert"
          /\ oauth.stores[oauth.cb[h].state] < MaxStores
          /\ CanFinish
          /\ auth_callback_upsert(h)
    \/ \E h \in Handlers : auth_callback_delState(h)

\* src/app.js requires ./db, the store with meta and summaries
InitOAuth == Init /\ variant = "db"

SpecOAuth == InitOAuth /\ [][NextOAuth]_vars

\* the run API called for installed, not installed and invalid shops
NextGate ==
    \/ \E s \in Shops : SyncIdle /\ ~TokenStored(s) /\ upsertShopToken(s, "t1")
    \/ \E s \in ShopArgs : sync_invalidShop(s)
    \/ \E s \in Shops : sync_notInstalled(s)
    \/ \E s \in Shops : nextId <= MaxRuns /\ sync_createRun(s)
    \/ sync_addRunLog
    \/ sync_finishRun
    \/ sync_addRunLogLast
    \/ sync_respond
    \/ sync_catch
    \/ \E s \in ShopArgs, i \in RunIdArgs : SyncIdle /\ api_run(s, i)
    \/ \E s \in ShopArgs : SyncIdle /\ api_runs(s)

SpecGate == InitOAuth /\ [][NextGate]_vars

\* the dashboard store: runs and system logs of two tenants
NextDashLogs ==
    \/ CanTick /\ Tick
    \/ \E s \in Shops :
          Len(dash.runs) < MaxRuns /\ Cardinality(sync_runs) < MaxRuns /\ CanFinish /\ createRun_dash(s, "sync")
    \/ \E s \in Shops, l \in {"info", "error"} :
          Len(dash.logs) < MaxLogs /\ Cardinality(app_logs) < MaxLogs /\ CanFinish /\ logEvent(s, l, "A", Undef)
    \/ \E s \in Shops : getLastRun(s)
    \/ \E s \in Shops, n \in LimitArgs : listLogs(s, n)

SpecDashLogs == Init /\ [][NextDashLogs]_vars

\* the order-sync store: orders of two platforms marked and looked up
NextOrders ==
    \/ \E p \in PlatformArgs, o \in OrderIdArgs : CanFinish /\ markProcessed_p003(p, o)
    \/ \E p \in PlatformArgs, o \in OrderIdArgs : isProcessed_p003(p, o)

SpecOrders == Init /\ [][NextOrders]_vars

\* ------------------------------------------------------------------ claims
\* what getRunWithLogs reports as the status of run i ("none": no such run)
StatusOf(i) ==
    LET g == getRunWithLogsResult(i, 1)
    IN  IF g.run = <<>> THEN "none" ELSE g.run[1].status

Terminal == {"success", "error"}

\* C1 as stated: once a run's status is success or error, no later ledger
\* operation changes that run's status.
C1_TerminalIsFinal ==
    [][\A i \in RunIdArgs : StatusOf(i) \in Terminal => StatusOf(i)' = StatusOf(i)]_vars

\* C1 as amended: once a run's status is success or error, only a finishRun
\* call on that same run changes its status; createRun, addRunLog, the
\* queries and finishRun on another run leave it as it is.
C1_OnlyFinishRunChangesStatus ==
    [][\A i \in RunIdArgs :
          (StatusOf(i) \in Terminal /\ StatusOf(i)' # StatusOf(i))
             => (last'.op = "finishRun" /\ last'.id = i)]_vars

\* a finished run after which another operation (a log append, a finishRun
\* on the other run) has acted
C1_Witness ==
    /\ hasDb
    /\ nextId > 2
    /\ StatusOf(1) \in Terminal
    /\ \/ last.op = "addRunLog" /\ last.id = 1
       \/ last.op = "finishRun" /\ last.id = 2

\* C2: listRuns(A, limit) returns only runs whose tenant key is A, in the
\* in-memory fallback as well as in the durable backend, in the run ledger
\* and in the dashboard store.
C2_TenantIsolation ==
    \A a \in Shops, n \in LimitArgs :
       /\ \A k \in DOMAIN listRunsResult(a, n) : listRunsResult(a, n)[k].shop_domain = a
       /\ \A k \in DOMAIN listRuns_dashResult(a, n) : listRuns_dashResult(a, n)[k].shop_domain = a

\* C3: markProcessed(x) raises no error and isProcessed(x) is true after it;
\* called on an id that is already marked, it leaves the ledger as it was.
C3_MarkProcessedIdempotent ==
    [][\A x \in EventIds :
          (last'.op = "markProcessed" /\ last'.key = x)
             => /\ ~last'.err
                /\ isProcessedResult(x)'
                /\ isProcessedResult(x)
                      => (memory'.processed = memory.processed /\ processed_events' = processed_events)]_vars

\* the second markProcessed call on one id has returned
C3_Witness ==
    /\ last.op = "markProcessed"
    /\ marks[last.key] = 2
    /\ hasDb
    /\ isProcessedResult(last.key)

\* C4: when the same webhook event is delivered more than once, the
\* marketplace update for that event (per variant) is performed at most once.
C4_UpdateAtMostOnce ==
    \A e \in EventIds, k \in Skus :
       Cardinality({i \in DOMAIN ebayCalls[e] : ebayCalls[e][i].sku = k}) <= 1

\* C5: after finishRun(id, "success", S) on an existing run, getRunWithLogs(id)
\* returns status success, summary S and a non-null finished time that is
\* not earlier than the started time, for every summary value S.
C5_FinishSuccessReturnsSummary ==
    (last.op = "finishRun" /\ last.status = "success" /\ last.summary # Undef /\ StatusOf(last.id) # "none")
       => \A n \in LimitArgs :
             LET r == getRunWithLogsResult(last.id, n).run[1]
             IN  /\ r.status = "success"
                 /\ r.summary = last.summary
                 /\ r.finished_at # NullTime
                 /\ r.finished_at >= r.started_at

\* C6: getRunWithLogs called right after createRun returns the run with
\* status running, the summary given (an empty one when none was given), a
\* null finished time and no log entries.
C6_FreshRun ==
    last.op = "createRun"
       => \A n \in LimitArgs :
             LET g == getRunWithLogsResult(last.id, n)
             IN  /\ g.run # <<>>
                 /\ g.run[1].id = last.id
                 /\ g.run[1].status = "running"
                 /\ IF Falsy(last.summary)
                    THEN g.run[1].summary \in {EmptyObj, Null}
                    ELSE g.run[1].summary = last.summary
                 /\ g.run[1].finished_at = NullTime
                 /\ g.logs = <<>>

\* a second run created with a summary while the first one is finished
C6_Witness ==
    /\ last.op = "createRun"
    /\ last.id = 2
    /\ last.summary = "S1"
    /\ StatusOf(1) \in Terminal

\* level and message of the entries getRunWithLogs returns
LevelsAndMessages(logs) == [k \in DOMAIN logs |-> [level |-> logs[k].level, message |-> logs[k].message]]

\* C7: the entries appended to a run come back in the order they were
\* appended, level and message unchanged: all of them when the limit allows,
\* else a run of consecutive ones; and finishRun error leaves status error.
C7_LogOrder ==
    /\ \A i \in RunIdArgs, n \in LimitArgs :
          LET got == LevelsAndMessages(getRunWithLogsResult(i, n).logs)
          IN  /\ \E a \in 1..(Len(hist[i]) + 1), b \in 0..Len(hist[i]) : got = SubSeq(hist[i], a, b)
              /\ n >= Len(hist[i]) => got = hist[i]
    /\ (last.op = "finishRun" /\ StatusOf(last.id) # "none") => StatusOf(last.id) = Default(last.status, "success")

\* info "A", then error "B", then finishRun error: two logs in that order
C7_Witness ==
    /\ hasDb
    /\ last.op = "finishRun"
    /\ last.id = 1
    /\ StatusOf(1) = "error"
    /\ LevelsAndMessages(getRunWithLogsResult(1, 3).logs) =
          <<[level |-> "info", message |-> "A"], [level |-> "error", message |-> "B"]>>

\* C8: addRunLog with an empty or missing message raises no error and leaves
\* the log entries of every run as they were.
C8_EmptyMessageNoOp ==
    [][(last'.op = "addRunLog" /\ Falsy(last'.message))
          => /\ ~last'.err
             /\ memory'.runLogs = memory.runLogs
             /\ run_logs' = run_logs
             /\ \A i \in RunIdArgs, n \in LimitArgs :
                   Len(getRunWithLogsResult(i, n).logs') = Len(getRunWithLogsResult(i, n).logs)]_vars

\* an empty-message call on a run that already has a log entry
C8_Witness ==
    /\ last.op = "addRunLog"
    /\ last.message = ""
    /\ last.id = 1
    /\ Len(getRunWithLogsResult(1, 3).logs) = 1

\* the link getEbayLinkBySku returns for (shop a, k) before and after a step
OldLink(k) == getEbayLinkBySkuResult("a.myshopify.com", k)[1]
NewLink(k) == getEbayLinkBySkuResult("a.myshopify.com", k)'[1]

C10_StatusPreserved ==
    [][\A k \in Skus :
          (last'.op = "upsertEbayLink" /\ last'.key = k /\ last'.status = Undef
              /\ getEbayLinkBySkuResult("a.myshopify.com", k) # <<>>)
             => NewLink(k).status = OldLink(k).status]_vars

\* C11: after setToken(t, s), getToken(t) returns s for every secret s; a
\* later setToken(t, s2) makes it return s2; the tokens of other tenants and
\* every other operation leave what getToken returns unchanged.
C11_TokenRoundTrip ==
    [][\A t \in Shops :
          IF last'.op = "upsertShopToken" /\ last'.shop = t
          THEN /\ getShopTokenResult(t)' = last'.key
               /\ getShopTokenResult_p003(t)' = last'.key
          ELSE /\ getShopTokenResult(t)' = getShopTokenResult(t)
               /\ getShopTokenResult_p003(t)' = getShopTokenResult_p003(t)]_vars

\* the run and link lookups of an absent key return null and raise nothing
AbsentRunAndLinkAreNull ==
    /\ (last.op = "getRunWithLogs" /\ ~RunStored(last.id))
          => /\ ~last.err
             /\ \A n \in LimitArgs : getRunWithLogsResult(last.id, n).run = <<>>
    /\ (last.op = "getEbayLinkBySku" /\ \A r \in ebay_links : ~(r.shop = last.shop /\ r.sku = last.key))
          => /\ ~last.err
             /\ getEbayLinkBySkuResult(last.shop, last.key) = <<>>

RunBefore(i) == getRunWithLogsResult(i, 1).run[1]
RunAfter(i) == getRunWithLogsResult(i, 1)'.run[1]

\* C13: backend parity.  Whichever backend is active, an operation returns
\* what the in-memory fallback computes from the same observable state: the
\* summary a created or finished run reports, no error from addLog, and the
\* last logLimit of the run's log entries from getRunWithLogs.
C13_BackendParity ==
    [][/\ \A i \in RunIdArgs :
             /\ (last'.op = "createRun" /\ last'.id = i)
                   => RunAfter(i).summary = CreateSummaryMem(variant, last'.summary)
             /\ (last'.op = "finishRun" /\ last'.id = i /\ RunStored(i))
                   => /\ RunAfter(i).status = FinishStatus(last'.status, RunBefore(i).status)
                      /\ RunAfter(i).summary = FinishSummaryMem(variant, last'.summary, RunBefore(i).summary)
             /\ \A n \in LimitArgs :
                   LevelsAndMessages(getRunWithLogsResult(i, n).logs)
                      = SliceLast(LevelsAndMessages(getRunWithLogsResult(i, MaxLogs + 1).logs), n)
       /\ last'.op = "addRunLog" => ~last'.err]_vars

\* C14: getRunWithLogs(runId, logLimit) never returns more than logLimit log
\* entries, for every logLimit >= 0 and every number of stored logs.
C14_LogsBounded ==
    \A i \in RunIdArgs, n \in LimitArgs : Len(getRunWithLogsResult(i, n).logs) <= n

\* C15: when a run has more than N log entries, getRunWithLogs(runId, N)
\* returns the N most recently appended ones, oldest of them first, on both
\* backends (N >= 1).
C15_NewestLogs ==
    \A i \in RunIdArgs, n \in 1..MaxLimit :
       Len(hist[i]) > n
          => LevelsAndMessages(getRunWithLogsResult(i, n).logs)
                = SubSeq(hist[i], Len(hist[i]) - n + 1, Len(hist[i]))

\* the ids of the stored runs of tenant t; createRun hands out increasing ids,
\* so a larger id is a later start
RunIdsOf(t) ==
    IF ~hasDb THEN {memory.runs[k].id : k \in {j \in DOMAIN memory.runs : memory.runs[j].shop_domain = t}}
    ELSE {r.id : r \in {x \in runs : x.shop_domain = t}}

\* C16: listRuns(t, n) returns at most n runs: the n most recently started
\* runs of tenant t, newest first; the run createRun has just returned is
\* listed first for its tenant, before any log entry exists for it.
C16_ListRunsNewestFirst ==
    /\ \A t \in Shops, n \in LimitArgs :
          LET res == listRunsResult(t, n)
          IN  /\ Len(res) = Min(n, Cardinality(RunIdsOf(t)))
              /\ \A k \in DOMAIN res : res[k].shop_domain = t /\ res[k].id \in RunIdsOf(t)
              /\ \A k \in DOMAIN res : k > 1 => res[k - 1].id > res[k].id
              /\ \A i \in RunIdsOf(t) :
                    (\A k \in DOMAIN res : res[k].id # i) => \A k \in DOMAIN res : res[k].id > i
    /\ last.op = "createRun"
          => /\ hist[last.id] = <<>>
             /\ \A n \in 1..MaxLimit : listRunsResult(last.shop, n)[1].id = last.id

\* the second run of a tenant has just been created and a limit of 1 cuts the list
C16_Witness ==
    /\ last.op = "createRun"
    /\ Cardinality(RunIdsOf(last.shop)) = 2
    /\ Len(listRunsResult(last.shop, 1)) = 1
    /\ listRunsResult(last.shop, 1)[1].id = last.id
    /\ hasDb

\* C17: double finish is last-write-wins.  A finishRun(id, s2, S2) on a run
\* that was already finished makes getRunWithLogs(id) return status s2 and
\* summary S2; for an absent or null S2 the summary returned is empty (null
\* or {}).
C17_LastWriteWins ==
    [][\A i \in RunIdArgs :
          (last'.op = "finishRun" /\ last'.id = i /\ RunStored(i) /\ RunBefore(i).finished_at # NullTime)
             => /\ RunAfter(i).status = Default(last'.status, "success")
                /\ IF last'.summary \in {Undef, Null}
                   THEN RunAfter(i).summary \in {Null, EmptyObj}
                   ELSE RunAfter(i).summary = last'.summary]_vars

\* the runs of the dashboard store, numbered in creation order (unshift
\* prepends, BIGSERIAL counts up)
DashCount == IF ~hasDb THEN Len(dash.runs) ELSE Cardinality(sync_runs)
DashRunAt(k) ==
    IF ~hasDb THEN dash.runs[Len(dash.runs) - k + 1] ELSE CHOOSE r \in sync_runs : r.id = k

\* C18 as stated: finished_at is null before the first finishRun on a run and,
\* once set, no later operation changes it.
C18_FinishedAtSetOnce ==
    [][/\ \A i \in RunIdArgs :
             /\ (~RunStored(i) /\ RunStored(i)') => RunAfter(i).finished_at = NullTime
             /\ (RunStored(i) /\ RunBefore(i).finished_at # NullTime)
                   => RunAfter(i).finished_at = RunBefore(i).finished_at
       /\ \A k \in 1..DashCount :
             DashRunAt(k).finished_at # NullTime => DashRunAt(k)'.finished_at = DashRunAt(k).finished_at]_vars

\* C18 amended: finished_at is null from createRun until the first finishRun
\* on the run; only a finishRun on that run changes it, each one (the first
\* and every later one) to the time of that call, never back to null.
C18_FinishedAtByFinishRun ==
    [][/\ \A i \in RunIdArgs :
             /\ (~RunStored(i) /\ RunStored(i)') => RunAfter(i).finished_at = NullTime
             /\ (RunStored(i) /\ RunAfter(i).finished_at # RunBefore(i).finished_at)
                   => /\ last'.op = "finishRun" /\ last'.id = i
                      /\ RunAfter(i).finished_at >= RunAfter(i).started_at
                      /\ RunAfter(i).finished_at > RunBefore(i).finished_at
             /\ RunStored(i)' => (RunAfter(i).finished_at = NullTime <=> RunAfter(i).status = "running")
       /\ \A k \in 1..DashCount :
             /\ DashRunAt(k)'.finished_at # DashRunAt(k).finished_at
                   => /\ last'.op = "finishRun" /\ last'.id = DashRunAt(k).id
                      /\ DashRunAt(k)'.finished_at > DashRunAt(k).finished_at
             /\ DashRunAt(k)'.finished_at = NullTime <=> DashRunAt(k)'.status = "running"
       /\ \A k \in 1..MaxRuns :
             (DashCount < k /\ DashCount' = k) => DashRunAt(k)'.finished_at = NullTime]_vars

\* a finishRun on the durable backend has stamped a run later than a first
\* finishRun right after its creation would have
C18_Witness ==
    /\ last.op = "finishRun"
    /\ hasDb
    /\ RunStored(last.id)
    /\ getRunWithLogsResult(last.id, 1).run[1].finished_at > getRunWithLogsResult(last.id, 1).run[1].started_at + 1

\* C19: no two stored runs ever share an id, in the run ledger and in the
\* dashboard store, even when two runs are created within one clock instant.
C19_RunIdsUnique ==
    /\ \A j, k \in DOMAIN memory.runs : memory.runs[j].id = memory.runs[k].id => j = k
    /\ \A r, q \in runs : r.id = q.id => r = q
    /\ \A j, k \in DOMAIN dash.runs : dash.runs[j].id = dash.runs[k].id => j = k
    /\ \A r, q \in sync_runs : r.id = q.id => r = q

\* C20: if the durable backend is configured but initialization fails because
\* it is unreachable, the server never starts serving requests.
C20_FailFast ==
    (proc.url /\ ~proc.reachable) => proc.phase # "listening"

\* C21: when a required configuration setting is missing, the process exits
\* at startup and never listens for requests.
C21_ConfigFailFast ==
    proc.env # "ok" => proc.phase # "listening"

\* C22: once the sync handler has responded, the run it created is in a
\* terminal status, whether the handler succeeded or failed; after a failure
\* the status is error and an error-level entry was logged.
C22_RespondedRunIsTerminal ==
    (last.op = "respond" /\ RunStored(last.id))
       => /\ StatusOf(last.id) \in Terminal
          /\ last.err => /\ StatusOf(last.id) = "error"
                         /\ \E k \in DOMAIN hist[last.id] : hist[last.id][k].level = "error"

\* C23: a handler never appends a log entry to a run it has finished: every
\* addLog call on a stored run finds the run still running.
C23_NoLogAfterFinish ==
    [][\A i \in RunIdArgs :
          (last'.op = "addRunLog" /\ last'.id = i /\ RunStored(i)) => RunBefore(i).status = "running"]_vars

\* C24: whenever the run with the requested id belongs to a tenant other than
\* the requesting shop, GET /api/run/:id returns neither the run nor any of
\* its log entries, and answers 403 to a shop that is installed.
C24_RunOwnership ==
    \A s \in Shops, i \in RunIdArgs :
       (RunStored(i) /\ getRunWithLogsResult(i, 1).run[1].shop_domain # s)
          => /\ api_runResult(s, i).run = <<>>
             /\ api_runResult(s, i).logs = <<>>
             /\ api_runResult(s, i).status # "200"
             /\ TokenStored(s) => api_runResult(s, i).status = "403"

\* an installed shop has asked for a run of the other shop that has a log entry
C24_Witness ==
    /\ last.op = "GET /api/run/:id"
    /\ last.status = "403"
    /\ RunStored(last.id)
    /\ getRunWithLogsResult(last.id, 1).logs # <<>>
    /\ api_runResult(last.shop, last.id).status = "403"

C26_ListLinksNewestFirst ==
    [][/\ \A n \in LimitArgs : Len(listEbayLinksResult("a.myshopify.com", n)') <= n
       /\ \A k \in Skus, n \in 1..MaxLimit :
             (last'.op = "upsertEbayLink" /\ last'.key = k)
                => listEbayLinksResult("a.myshopify.com", n)'[1].sku = k]_vars

\* C27: there is at most one link per (tenant, sku) pair; an upsertEbayLink on
\* an existing pair updates that entry in place, replacing its product and
\* variant ids with the new ones; the links of other pairs are unchanged.
C27_OneLinkPerKey ==
    [][/\ \A r, q \in ebay_links' : (r.shop = q.shop /\ r.sku = q.sku) => r = q
       /\ \A s \in Shops, k \in Skus :
             (last'.op = "upsertEbayLink" /\ last'.shop = s /\ last'.key = k)
                => /\ getEbayLinkBySkuResult(s, k)'[1].shopify_product_id = last'.productId
                   /\ getEbayLinkBySkuResult(s, k)'[1].shopify_variant_id = last'.variantId
                   /\ \A r \in ebay_links : (r.shop # s \/ r.sku # k) => r \in ebay_links'
                   /\ Cardinality(ebay_links') =
                         Cardinality(ebay_links) + (IF getEbayLinkBySkuResult(s, k) = <<>> THEN 1 ELSE 0)]_vars

\* an upsert has rewritten the ids of a link that is older than another link
C27_Witness ==
    /\ last.op = "upsertEbayLink"
    /\ Cardinality(ebay_links) = 3
    /\ getEbayLinkBySkuResult(last.shop, last.key)[1].shopify_product_id = "P2"
    /\ getEbayLinkBySkuResult(last.shop, last.key)[1].shopify_variant_id = "V2"
    /\ \E r \in ebay_links : r.updated_at > getEbayLinkBySkuResult(last.shop, last.key)[1].updated_at

\* C28: a stored run stays stored, and its status changes only as the effect
\* of a finishRun call on that run: the passing of time and every other
\* operation leave it as it is, so a run on which finishRun is not called
\* is still running afterwards.
C28_NoAutomaticTransition ==
    [][\A i \in RunIdArgs :
          RunStored(i)
             => /\ RunStored(i)'
                /\ ~(last'.op = "finishRun" /\ last'.id = i) => StatusOf(i)' = StatusOf(i)
                /\ (StatusOf(i) = "running" /\ last' = last) => StatusOf(i)' = "running"]_vars

\* run 1 is still running after the clock has advanced and the later run 2
\* has been finished
C28_Witness ==
    /\ StatusOf(1) = "running"
    /\ StatusOf(2) \in Terminal
    /\ last.op = "finishRun"
    /\ last.id = 2
    /\ clock >= MaxClock

\* every entry stored for run i, read with the largest limit
AllLogs(i) == getRunWithLogsResult(i, MaxLogs).logs

\* C29: addRunLog calls on one run made by different handlers take effect one
\* after the other in either order; each call with a non-empty message on a
\* stored run adds exactly its entry and keeps every entry stored before it,
\* so after both calls the log holds both messages.
C29_ConcurrentLogsAdmitted ==
    [][\A i \in RunIdArgs :
          (last'.op = "addRunLog" /\ last'.id = i /\ ~Falsy(last'.message) /\ RunStored(i)
              /\ (hist' # hist \/ last' # last))
             => /\ ~last'.err
                /\ Len(AllLogs(i)') = Len(AllLogs(i)) + 1
                /\ \A k \in DOMAIN AllLogs(i) : \E j \in DOMAIN AllLogs(i)' : AllLogs(i)'[j] = AllLogs(i)[k]
                /\ \E j \in DOMAIN AllLogs(i)' : AllLogs(i)'[j].message = last'.message
                /\ \A m \in MessageArgs :
                      Cardinality({j \in DOMAIN AllLogs(i)' : AllLogs(i)'[j].message = m})
                         = Cardinality({k \in DOMAIN AllLogs(i) : AllLogs(i)[k].message = m})
                              + (IF m = last'.message THEN 1 ELSE 0)]_vars

\* after an earlier entry, "B" and "A" were appended to run 1 within one
\* clock instant, "A" last: all three entries are stored
C29_Witness ==
    /\ ~hasDb
    /\ last.op = "addRunLog"
    /\ last.id = 1
    /\ Len(AllLogs(1)) = 3
    /\ AllLogs(1)[2].message = "B"
    /\ AllLogs(1)[3].message = "A"
    /\ AllLogs(1)[2].created_at = AllLogs(1)[3].created_at

\* C30: addRunLog called with a non-empty message and a run id for which no
\* run is stored completes without an error on either backend and creates no
\* run: getRunWithLogs for that id still reports the run as not found.
C30_OrphanLogAccepted ==
    [][\A i \in RunIdArgs :
          (last'.op = "addRunLog" /\ last'.id = i /\ ~Falsy(last'.message) /\ ~RunStored(i))
             => /\ ~last'.err
                /\ getRunWithLogsResult(i, 1)'.run = <<>>]_vars

\* C31: in every reachable state the status of every stored run is one of
\* running, success, error, whatever status argument finishRun was given.
C31_StatusInDeclaredSet ==
    \A i \in RunIdArgs : RunStored(i) => StatusOf(i) \in {"running"} \cup Terminal

\* a step that stores a shop token
TokenStoreStep ==
    \/ memory'.tokens # memory.tokens
    \/ shop_tokens' # shop_tokens
    \/ \E s \in DOMAIN oauth.stores : oauth'.stores[s] > oauth.stores[s]

\* the request of handler h passed every check of the callback, its state
\* being at most `age` old when it was looked up
CallbackChecked(h, age) ==
    /\ oauth.cb[h].pc = "upsert"
    /\ isValidShop(oauth.cb[h].shop)
    /\ \E v \in oauth.issued :
          /\ v.state = oauth.cb[h].state
          /\ v.shop = oauth.cb[h].shop
          /\ oauth.cb[h].at - v.createdAt <= age
    /\ oauth.cb[h].okHmac
    /\ ~Falsy(oauth.cb[h].token)

\* C32 as stated: a shop token is stored only for a callback request whose
\* shop is valid, whose state /auth issued for that shop less than
\* STATE_TTL_MS before, whose HMAC verified and whose token exchange
\* returned an access token.
C32_TokenOnlyAfterChecks ==
    [][TokenStoreStep
          => \E h \in Handlers :
                /\ CallbackChecked(h, STATE_TTL_MS - 1)
                /\ last'.shop = oauth.cb[h].shop
                /\ last'.key = oauth.cb[h].token]_vars

\* C32 amended: as above, with a state issued at most STATE_TTL_MS before
\* (a state exactly STATE_TTL_MS old is still accepted).
C32_TokenOnlyAfterChecksInclusive ==
    [][TokenStoreStep
          => \E h \in Handlers :
                /\ CallbackChecked(h, STATE_TTL_MS)
                /\ last'.shop = oauth.cb[h].shop
                /\ last'.key = oauth.cb[h].token
                /\ getShopTokenResult(oauth.cb[h].shop)' = oauth.cb[h].token]_vars

\* a token was stored for a request whose state was exactly STATE_TTL_MS old
C32_Witness ==
    /\ last.op = "upsertShopToken"
    /\ getShopTokenResult(last.shop) = "t1"
    /\ \E h \in Handlers, v \in oauth.issued :
          /\ oauth.cb[h].pc = "delState"
          /\ v.state = oauth.cb[h].state
          /\ oauth.cb[h].at - v.createdAt = STATE_TTL_MS

\* C33: a state issued by one /auth request leads to at most one token
\* store, also when two /auth/callback requests carry it at once.
C33_StateSingleUse ==
    \A s \in DOMAIN oauth.stores : oauth.stores[s] <= 1

\* C34: the products-update handler calls updateOfferPriceQty only after the
\* request's HMAC verified and the shop has a stored token, only for variants
\* of the payload with a non-empty SKU whose (shop, SKU) link exists with a
\* non-null offer id, and always with that link's offer id.
C34_UpdateOnlyLinkedOffers ==
    [][\A e \in EventIds :
          ebayCalls'[e] # ebayCalls[e]
             => /\ last'.op = "products-update" /\ last'.key = e
                /\ last'.hmac = TRUE
                /\ ~Falsy(getShopToken_shopsResult(EventBody(e).shop))
                /\ Len(ebayCalls'[e]) > Len(ebayCalls[e])
                /\ \A i \in DOMAIN ebayCalls'[e] :
                      IF i <= Len(ebayCalls[e]) THEN ebayCalls'[e][i] = ebayCalls[e][i]
                      ELSE LET c == ebayCalls'[e][i]
                               link == getEbayLinkBySkuResult(EventBody(e).shop, c.sku)
                           IN  /\ ~Falsy(c.sku)
                               /\ \E k \in DOMAIN EventBody(e).variants : EventBody(e).variants[k].sku = c.sku
                               /\ link # <<>>
                               /\ ~Falsy(link[1].ebay_offer_id)
                               /\ c.offerId = link[1].ebay_offer_id]_vars

\* event e2 names SKU2 and SKU1; SKU2's link has no offer id, so the one
\* call made is for SKU1 with its offer id
C34_Witness ==
    /\ last.op = "products-update"
    /\ last.key = "e2"
    /\ last.status = "OK"
    /\ getEbayLinkBySkuResult("a.myshopify.com", "SKU2") # <<>>
    /\ getEbayLinkBySkuResult("a.myshopify.com", "SKU2")[1].ebay_offer_id = Null
    /\ Len(ebayCalls["e2"]) = 1
    /\ ebayCalls["e2"][1].sku = "SKU1"
    /\ ebayCalls["e2"][1].offerId = "O1"

\* the shop parameter is invalid or the shop has no stored token
NotInstalled(shop) == ~isValidShop(shop) \/ ~TokenStored(shop)

\* C35: when the shop parameter is invalid or the shop has no stored token,
\* POST /api/sync/run creates no run and writes no log entry, and
\* GET /api/runs and GET /api/run/:id return no run or log data.
C35_RunApiGated ==
    [][/\ \A s \in ShopArgs :
             NotInstalled(s)'
                => /\ api_runsResult(s)'.runs = <<>>
                   /\ api_runsResult(s)'.status \in {"400", "401"}
                   /\ \A i \in RunIdArgs :
                         /\ api_runResult(s, i)'.run = <<>>
                         /\ api_runResult(s, i)'.logs = <<>>
                         /\ api_runResult(s, i)'.status \in {"400", "401"}
                   /\ (last'.op = "respond" /\ last'.shop = s /\ last'.status \in {"400", "401"})
                         => /\ nextId' = nextId /\ hist' = hist
                            /\ memory'.runs = memory.runs /\ memory'.runLogs = memory.runLogs
                            /\ runs' = runs /\ run_logs' = run_logs
       /\ \A s \in ShopArgs :
             (last'.op = "createRun" /\ last'.shop = s /\ nextId' # nextId) => ~NotInstalled(s)
       /\ \A i \in RunIdArgs :
             (last'.op = "addRunLog" /\ last'.id = i /\ hist'[i] # hist[i])
                => /\ RunStored(i)
                   /\ ~NotInstalled(RunBefore(i).shop_domain)]_vars

\* shop b, not installed, asks for run 1 of shop a and is answered 401
C35_Witness ==
    /\ last.op = "GET /api/run/:id"
    /\ last.shop = "b.myshopify.com"
    /\ last.id = 1
    /\ last.status = "401"
    /\ ~TokenStored("b.myshopify.com")
    /\ RunStored(1)
    /\ Len(hist[1]) > 0

\* C36: in the dashboard store, getLastRun(shop) and listLogs(shop, limit)
\* return only records whose shop_domain is the queried shop, in the
\* in-memory fallback as with the database.
C36_DashQueriesTenantScoped ==
    \A a \in Shops :
       /\ \A k \in DOMAIN getLastRunResult(a) : getLastRunResult(a)[k].shop_domain = a
       /\ \A n \in LimitArgs :
             \A k \in DOMAIN listLogsResult(a, n) : listLogsResult(a, n)[k].shop_domain = a

\* C37: in the order-sync store, isProcessed(platform, orderId) is true only
\* if markProcessed was called earlier with exactly that pair, in the
\* in-memory fallback as with the database.
C37_OrderPairsNotConfused ==
    \A p \in PlatformArgs, o \in OrderIdArgs :
       isProcessedResult_p003(p, o) => <<p, o>> \in p003.marked

\* C38: the dedup ledger is a grow-only set: isProcessed(x) is true exactly
\* when markProcessed(x) was called earlier, marking x leaves the answer for
\* every other id as it was, and a true answer stays true after every later
\* operation.
C38_DedupGrowOnly ==
    [][\A x \in EventIds :
          /\ isProcessedResult(x)' <=> marks'[x] > 0
          /\ isProcessedResult(x) => isProcessedResult(x)'
          /\ \A y \in EventIds \ {x} :
                (last'.op = "markProcessed" /\ last'.key = x)
                   => (isProcessedResult(y)' <=> isProcessedResult(y))]_vars

\* e1 was marked, then e2, then a token was stored: e1 is still processed
C38_Witness ==
    /\ last.op = "upsertShopToken"
    /\ isProcessedResult("e1")
    /\ isProcessedResult("e2")
    /\ marks["e1"] = 1
    /\ marks["e2"] = MaxMarks

\* C39: finishRun and addRunLog on run R leave R's id, tenant key, trigger
\* and started_at unchanged, and leave every other run and every other run's
\* log entries unchanged; finishRun on an id for which no run exists changes
\* nothing and raises no error.
C39_FinishAndLogFrame ==
    [][\A i \in RunIdArgs :
          (last'.op \in {"finishRun", "addRunLog"} /\ last'.id = i)
             => /\ RunStored(i)
                      => /\ RunStored(i)'
                         /\ RunAfter(i).id = RunBefore(i).id
                         /\ RunAfter(i).shop_domain = RunBefore(i).shop_domain
                         /\ RunAfter(i).trigger = RunBefore(i).trigger
                         /\ RunAfter(i).started_at = RunBefore(i).started_at
                /\ \A j \in RunIdArgs \ {i} :
                      /\ RunStored(j) <=> RunStored(j)'
                      /\ RunStored(j) => RunAfter(j) = RunBefore(j)
                      /\ AllLogs(j)' = AllLogs(j)
                /\ (last'.op = "finishRun" /\ ~RunStored(i))
                      => /\ ~last'.err
                         /\ ~RunStored(i)'
                         /\ memory' = memory /\ runs' = runs /\ run_logs' = run_logs]_vars

\* run 1 was finished while run 2, with one log entry, is still running
C39_Witness ==
    /\ last.op = "finishRun"
    /\ last.id = 1
    /\ StatusOf(1) = "error"
    /\ StatusOf(2) = "running"
    /\ Len(AllLogs(2)) = 1
====
